---- MODULE Spec2Model ----
(***************************************************************************)
(* Session orchestration and realtime event fan-out of the computer-use    *)
(* demo API (computer_use_demo/api/server.py).                             *)
(*                                                                         *)
(* One asyncio event loop runs the request handlers, the background agent  *)
(* runs and the broadcast tasks: the code between two awaits is one atomic *)
(* step.  The SQLite helpers called through asyncio.to_thread run on       *)
(* worker threads and are serialised by _db_lock only: they interleave     *)
(* freely with the event loop, also in the middle of a run's synchronous   *)
(* persistence loop.                                                       *)
(***************************************************************************)
EXTENDS Integers, Sequences, FiniteSets, TLC

\* ---------------------------------------------------------------- bounds
MaxClock == 2
MaxSessions == 2
MaxPosts == 2
MaxDeletes == 1
MaxRepeats == 1
MaxSubs == 2
MaxTurns == 1

Ids == 1..MaxClock          \* values of the microsecond clock, used as session ids
NoId == MaxClock + 1        \* an id that clients name and no session ever has
Names == Ids \cup {NoId}    \* the ids a request can carry
Objs == 1..MaxSessions      \* SessionState objects, in order of construction
Posts == 1..MaxPosts        \* POST /sessions/{id}/messages requests; post p may schedule run p
Deletes == 1..(MaxDeletes + MaxRepeats)   \* DELETE /sessions/{id} requests
Sockets == 1..MaxSubs       \* WebSocket connections

Providers == {"anthropic", "bedrock"}
Keys == {"", "sk"}
CallbackKinds == {"assistant_block", "tool_result", "api_exchange"}

VARIABLES
    clock,        \* last value of utcnow() used as a session id (0: none yet)
    SESSIONS,     \* id -> SessionState object (0: no entry)
    WS_CLIENTS,   \* id -> set of registered websockets
    sessId,       \* object -> its id field (0: not constructed)
    provider,     \* object -> its provider field ("none": not constructed)
    api_key,      \* object -> its api_key field
    messages,     \* object -> the list its messages field refers to
    is_running,   \* object -> its is_running field
    dbSessions,   \* sessions table: id -> status ("none": no row)
    dbMessages,   \* messages table: set of rows [id, session_id, role, content]
    dbSeq,        \* AUTOINCREMENT sequence of the messages table
    createPc,     \* create_session request of object o
    postPc,       \* post_message request p
    postObj,      \* the SessionState post p resolved (0: none)
    during,       \* the run in progress on that session when post p appended (0: none)
    delPc,        \* delete_session request d
    delId,        \* its session_id
    delFound,     \* whether its SESSIONS.pop removed an entry
    runPc,        \* background task _run_agent_for_session scheduled by post p
    before,       \* len(messages_before) of run r
    aliased,      \* whether the agent loop of run r works on the list it was handed
    loopMsgs,     \* the list the agent loop of run r works on when it is not aliased;
                  \* after the loop returned, updated_messages
    idx,          \* next index of the persistence loop of run r
    nTurns,       \* steps (a turn appended, a callback invoked) the agent loop of run r made
    outcome,      \* how the agent loop of run r ended: "none", "returned", "raised"
    live,         \* the websockets registered when run r began its terminal broadcast
    published,    \* the types of the terminal events run r has published, in order
    evOwner,      \* the run whose agent loop made the event loop's last step (0: none)
    bq,           \* broadcast tasks created by asyncio.create_task, not yet started
    bcasts,       \* _broadcast calls suspended in an await
    wsPc,         \* websocket_endpoint handler of websocket w
    wsSid,        \* its session_id
    wsHist,       \* the rows its _get_messages call returned
    alive,        \* whether the client end of w is connected
    stalled,      \* the websockets whose client has stopped reading: a send to one
                  \* of them does not complete
    writable,     \* whether the database accepts writes (sqlite3 raises when it does not)
    recv          \* the frames delivered to w, in order, while its client is connected

regVars == <<clock, SESSIONS, sessId, provider, api_key, createPc>>
dbVars == <<dbSessions, dbMessages, dbSeq, writable>>
postVars == <<postPc, postObj, during>>
delVars == <<delPc, delId, delFound>>
runVars == <<runPc, before, aliased, loopMsgs, idx, nTurns, outcome, live,
            published>>
wsVars == <<wsPc, wsSid, wsHist, alive, stalled>>
vars == <<regVars, WS_CLIENTS, messages, is_running, dbVars, postVars, delVars,
          runVars, evOwner, bq, bcasts, wsVars, recv>>

\* ------------------------------------------------------------ data shapes
Turn(role, content) == [role |-> role, content |-> content]
UserTurn(p) == Turn("user", p)
AssistantTurn(r, k) == Turn("assistant", 10 * r + k)

Event(type, r, k) == [type |-> type, run |-> r, k |-> k, messages |-> <<>>]
HistoryEvent(rows) == [type |-> "history", run |-> 0, k |-> 0, messages |-> rows]
\* An empty history frame in the place of the not-found frame.
EmptyHistoryEvent == HistoryEvent(<<>>)

NotFoundEvent == [type |-> "error", run |-> 0, k |-> 0, messages |-> <<>>]

\* ------------------------------------------------------ persistence helpers
insert_session(tbl, id) == [tbl EXCEPT ![id] = "idle"]

\* A status update without its WHERE clause: every row of the table is written.
set_session_status_all(tbl, id, status) ==
    [i \in DOMAIN tbl |-> IF tbl[i] = "none" THEN "none" ELSE status]

\* A status update that is lost.
set_session_status_lost(tbl, id, status) == tbl

set_session_status(tbl, id, status) ==
    IF tbl[id] = "none" THEN tbl ELSE [tbl EXCEPT ![id] = status]

\* An insert that is never committed.
insert_message_uncommitted(rows, seq, session_id, role, content) == rows

insert_message(rows, seq, session_id, role, content) ==
    rows \cup {[id |-> seq + 1, session_id |-> session_id, role |-> role, content |-> content]}

RECURSIVE OrderById(_)
OrderById(rows) ==
    IF rows = {} THEN <<>>
    ELSE LET first == CHOOSE m \in rows : \A n \in rows : m.id <= n.id
         IN  <<[id |-> first.id, role |-> first.role, content |-> first.content]>>
             \o OrderById(rows \ {first})

get_messages(session_id) == OrderById({m \in dbMessages : m.session_id = session_id})

delete_session_rows(rows, session_id) == {m \in rows : m.session_id # session_id}

\* ------------------------------------------------------------------ Init
Init ==
    /\ clock = 0
    /\ SESSIONS = [i \in Names |-> 0]
    /\ WS_CLIENTS = [i \in Names |-> {}]
    /\ sessId = [o \in Objs |-> 0]
    /\ provider = [o \in Objs |-> "none"]
    /\ api_key = [o \in Objs |-> ""]
    /\ messages = [o \in Objs |-> <<>>]
    /\ is_running = [o \in Objs |-> FALSE]
    /\ dbSessions = [i \in Names |-> "none"]
    /\ dbMessages = {}
    /\ dbSeq = 0
    /\ writable = TRUE
    /\ createPc = [o \in Objs |-> "new"]
    /\ postPc = [p \in Posts |-> "new"]
    /\ postObj = [p \in Posts |-> 0]
    /\ during = [p \in Posts |-> 0]
    /\ delPc = [d \in Deletes |-> "new"]
    /\ delId = [d \in Deletes |-> 0]
    /\ delFound = [d \in Deletes |-> FALSE]
    /\ runPc = [r \in Posts |-> "none"]
    /\ before = [r \in Posts |-> 0]
    /\ aliased = [r \in Posts |-> FALSE]
    /\ loopMsgs = [r \in Posts |-> <<>>]
    /\ idx = [r \in Posts |-> 0]
    /\ nTurns = [r \in Posts |-> 0]
    /\ outcome = [r \in Posts |-> "none"]
    /\ live = [r \in Posts |-> {}]
    /\ published = [r \in Posts |-> <<>>]
    /\ evOwner = 0
    /\ bq = <<>>
    /\ bcasts = {}
    /\ wsPc = [w \in Sockets |-> "new"]
    /\ wsSid = [w \in Sockets |-> 0]
    /\ wsHist = [w \in Sockets |-> <<>>]
    /\ alive = [w \in Sockets |-> FALSE]
    /\ stalled = {}
    /\ recv = [w \in Sockets |-> <<>>]

\* The event loop is inside a run's synchronous persistence section (server.py
\* 386-393): no other coroutine runs, worker threads do.
EvFree == \A r \in Posts : runPc[r] # "persist"

\* Requests, objects and sockets are numbered in the order in which they arrive.
Next1(pc, i) == IF i = 1 THEN TRUE ELSE pc[i - 1] # "new"

\* The ids a client can name: ids returned by a completed create_session, and an
\* id that no session has.
Nameable(id) ==
    \/ id = NoId
    \/ \E o \in Objs : createPc[o] = "done" /\ sessId[o] = id

\* The run whose agent loop is in progress on object o (0: none).
RunningOn(o) ==
    IF \E r \in Posts : postObj[r] = o /\ runPc[r] \in {"loop", "persist", "bcast"}
    THEN CHOOSE r \in Posts : postObj[r] = o /\ runPc[r] \in {"loop", "persist", "bcast"}
    ELSE 0

\* ------------------------------------------------------- session lifecycle
\* line 429: the only credential check of create_session.
MissingKey(req_provider, key) == req_provider = "anthropic" /\ key = ""

\* create_session up to its await: the id is read from the clock, the credential is
\* checked, the object is entered in SESSIONS.
CreateSession(o, ids, providers) ==
    /\ evOwner' = 0
    /\ EvFree
    /\ createPc[o] = "new"
    /\ Next1(createPc, o)
    /\ \E session_id \in ids, req_provider \in providers, key \in Keys :
          /\ session_id >= clock
          /\ IF MissingKey(req_provider, key)
             THEN /\ createPc' = [createPc EXCEPT ![o] = "rejected"]
                  /\ UNCHANGED <<clock, SESSIONS, sessId, provider, api_key>>
             ELSE /\ clock' = session_id
                  /\ sessId' = [sessId EXCEPT ![o] = session_id]
                  /\ provider' = [provider EXCEPT ![o] = req_provider]
                  /\ api_key' = [api_key EXCEPT ![o] = key]
                  /\ SESSIONS' = [SESSIONS EXCEPT ![session_id] = o]
                  /\ createPc' = [createPc EXCEPT ![o] = "insert"]
    /\ UNCHANGED <<WS_CLIENTS, messages, is_running, dbVars, postVars, delVars,
                   runVars, bq, bcasts, wsVars, recv>>

\* asyncio.to_thread(_insert_session, state), then the response.
CreateInsert(o) ==
    /\ UNCHANGED evOwner
    /\ createPc[o] = "insert"
    /\ IF writable
       THEN /\ dbSessions' = insert_session(dbSessions, sessId[o])
            /\ createPc' = [createPc EXCEPT ![o] = "done"]
       ELSE /\ createPc' = [createPc EXCEPT ![o] = "failed"]
            /\ UNCHANGED dbSessions
    /\ UNCHANGED <<clock, SESSIONS, sessId, provider, api_key, WS_CLIENTS, messages,
                   is_running, dbMessages, dbSeq, writable, postVars, delVars, runVars,
                   bq, bcasts, wsVars, recv>>

\* delete_session up to its await.
DeleteSession(d) ==
    /\ evOwner' = 0
    /\ EvFree
    /\ delPc[d] = "new"
    /\ Next1(delPc, d)
    /\ \E session_id \in Names :
          /\ Nameable(session_id)
          /\ SESSIONS' = [SESSIONS EXCEPT ![session_id] = 0]
          /\ delId' = [delId EXCEPT ![d] = session_id]
          /\ delFound' = [delFound EXCEPT ![d] = SESSIONS[session_id] # 0]
    /\ delPc' = [delPc EXCEPT ![d] = "db"]
    /\ UNCHANGED <<clock, sessId, provider, api_key, createPc, WS_CLIENTS, messages,
                   is_running, dbVars, postVars, runVars, bq, bcasts, wsVars, recv>>

\* asyncio.to_thread(_delete_session, session_id): one transaction.
DeleteRows(d) ==
    /\ UNCHANGED evOwner
    /\ delPc[d] = "db"
    /\ IF writable
       THEN /\ dbMessages' = delete_session_rows(dbMessages, delId[d])
            /\ dbSessions' = [dbSessions EXCEPT ![delId[d]] = "none"]
            /\ delPc' = [delPc EXCEPT ![d] = "done"]
       ELSE /\ delPc' = [delPc EXCEPT ![d] = "failed"]
            /\ UNCHANGED <<dbMessages, dbSessions>>
    /\ UNCHANGED <<regVars, WS_CLIENTS, messages, is_running, dbSeq, writable, postVars,
                   delId, delFound, runVars, bq, bcasts, wsVars, recv>>

\* get_session_messages: not-found for an id the registry does not hold, the
\* persisted messages in id order otherwise.
get_session_messages(session_id) ==
    IF SESSIONS[session_id] = 0
    THEN [status |-> "notfound", messages |-> <<>>]
    ELSE [status |-> "ok", messages |-> get_messages(session_id)]

\* ------------------------------------------------------------ post_message
\* _ensure_session_exists, then the append to session.messages, up to the await.
PostMessage(p) ==
    /\ evOwner' = 0
    /\ EvFree
    /\ postPc[p] = "new"
    /\ Next1(postPc, p)
    /\ \E session_id \in Names :
          /\ Nameable(session_id)
          /\ IF SESSIONS[session_id] = 0
             THEN /\ postPc' = [postPc EXCEPT ![p] = "notfound"]
                  /\ UNCHANGED <<messages, postObj, during>>
             ELSE LET o == SESSIONS[session_id] IN
                  /\ messages' = [messages EXCEPT ![o] = Append(@, UserTurn(p))]
                  /\ postObj' = [postObj EXCEPT ![p] = o]
                  /\ during' = [during EXCEPT ![p] = RunningOn(o)]
                  /\ postPc' = [postPc EXCEPT ![p] = "insert"]
    /\ UNCHANGED <<regVars, WS_CLIENTS, is_running, dbVars, delVars, runVars, bq,
                   bcasts, wsVars, recv>>

\* asyncio.to_thread(_insert_message, session_id, "user", ...).
PostInsert(p) ==
    /\ UNCHANGED evOwner
    /\ postPc[p] = "insert"
    /\ IF writable
       THEN /\ dbMessages' = insert_message(dbMessages, dbSeq, sessId[postObj[p]], "user", p)
            /\ dbSeq' = dbSeq + 1
            /\ postPc' = [postPc EXCEPT ![p] = "resume"]
       ELSE /\ postPc' = [postPc EXCEPT ![p] = "failed"]
            /\ UNCHANGED <<dbMessages, dbSeq>>
    /\ UNCHANGED <<regVars, WS_CLIENTS, messages, is_running, dbSessions, writable, postObj,
                   during, delVars, runVars, bq, bcasts, wsVars, recv>>

\* line 485: the run is scheduled when the session is not running.
TriggersRun(o) == ~is_running[o]

\* post_message after its await: schedule the background task, answer "accepted".
PostResume(p) ==
    /\ evOwner' = 0
    /\ EvFree
    /\ postPc[p] = "resume"
    /\ runPc' = [runPc EXCEPT ![p] = IF TriggersRun(postObj[p]) THEN "queued" ELSE "none"]
    /\ postPc' = [postPc EXCEPT ![p] = "accepted"]
    /\ UNCHANGED <<regVars, WS_CLIENTS, messages, is_running, dbVars, postObj, during,
                   delVars, before, aliased, loopMsgs, idx, nTurns, outcome, live, published,
                   bq, bcasts, wsVars, recv>>

\* ----------------------------------------------------------------- fan-out
\* await ws.send_json(event): the frame is written when the call is made; the call
\* raises when the client end is gone, and does not return while the client does not
\* read.
Delivered(w, ev) ==
    IF alive[w] /\ w \notin stalled THEN [recv EXCEPT ![w] = Append(@, ev)] ELSE recv

Dead(dead, w) == IF alive[w] THEN dead ELSE dead \cup {w}

\* The websocket a send_json call is held by (0: the call returns or raises).
Waiting(w) == IF alive[w] /\ w \in stalled THEN w ELSE 0

\* A _broadcast held in send_json goes on when that call raises.
Resumable(b) == IF b.wait = 0 THEN TRUE ELSE ~alive[b.wait]

\* The sockets whose send raised, forgotten.
RaisedNone(b) == {}

\* The dead list of a _broadcast that goes on: the socket that held it is on it.
Raised(b) == IF b.wait = 0 THEN b.dead ELSE b.dead \cup {b.wait}

\* A _broadcast that sends to the clients of every session.
TargetsAll(session_id) == UNION {WS_CLIENTS[i] : i \in Names}

\* A _broadcast that finds no client.
TargetsNone(session_id) == {}

\* line 313: the copy of the session's client set a _broadcast call iterates over.
Targets(session_id) == WS_CLIENTS[session_id]

\* The finally block of _run_agent_for_session; a status write that raises leaves
\* the task with that exception.
RunFinally(r) ==
    /\ is_running' = [is_running EXCEPT ![postObj[r]] = FALSE]
    /\ IF writable
       THEN /\ dbSessions' = set_session_status(dbSessions, sessId[postObj[r]], "idle")
            /\ runPc' = [runPc EXCEPT ![r] = "finished"]
       ELSE /\ runPc' = [runPc EXCEPT ![r] = "crashed"]
            /\ UNCHANGED dbSessions
    /\ before' = [before EXCEPT ![r] = 0]
    /\ aliased' = [aliased EXCEPT ![r] = FALSE]
    /\ loopMsgs' = [loopMsgs EXCEPT ![r] = <<>>]
    /\ idx' = [idx EXCEPT ![r] = 0]
    /\ nTurns' = [nTurns EXCEPT ![r] = 0]

\* await _broadcast(session.id, ev) called by run r, up to its first await: the
\* client set is copied and the first send_json is made; with no client the call
\* returns at once and the finally block follows.
InlineBroadcast(r, ev) ==
    LET session_id == sessId[postObj[r]]
        targets == Targets(session_id)
    IN  /\ live' = [live EXCEPT ![r] = WS_CLIENTS[session_id]]
        /\ published' = [published EXCEPT ![r] = Append(@, ev.type)]
        /\ IF targets = {}
           THEN /\ RunFinally(r)
                /\ UNCHANGED <<recv, bcasts>>
           ELSE /\ \E w \in targets :
                     /\ recv' = Delivered(w, ev)
                     /\ bcasts' = bcasts \cup {[ev |-> ev, sid |-> session_id,
                                                rest |-> targets \ {w},
                                                dead |-> Dead({}, w), owner |-> r,
                                                wait |-> Waiting(w)]}
                /\ runPc' = [runPc EXCEPT ![r] = "bcast"]
                /\ UNCHANGED <<is_running, dbSessions, before, aliased, loopMsgs, idx, nTurns>>

\* A task made by asyncio.create_task(_broadcast(...)) starts: tasks start in the
\* order of their creation.
BroadcastStart ==
    /\ evOwner' = 0
    /\ EvFree
    /\ bq # <<>>
    /\ LET t == Head(bq)
           targets == Targets(t.sid)
       IN  /\ bq' = Tail(bq)
           /\ IF targets = {}
              THEN UNCHANGED <<recv, bcasts>>
              ELSE \E w \in targets :
                     /\ recv' = Delivered(w, t.ev)
                     /\ bcasts' =
                          IF targets = {w} /\ alive[w] /\ w \notin stalled THEN bcasts
                          ELSE bcasts \cup {[ev |-> t.ev, sid |-> t.sid,
                                             rest |-> targets \ {w},
                                             dead |-> Dead({}, w), owner |-> 0,
                                             wait |-> Waiting(w)]}
    /\ UNCHANGED <<regVars, WS_CLIENTS, messages, is_running, dbVars, postVars, delVars,
                   runVars, wsVars>>

\* A suspended _broadcast resumes and makes its next send_json.
BroadcastSend(b) ==
    /\ evOwner' = 0
    /\ EvFree
    /\ b \in bcasts
    /\ b.rest # {}
    /\ Resumable(b)
    /\ \E w \in b.rest :
          /\ recv' = Delivered(w, b.ev)
          /\ bcasts' =
               IF b.rest = {w} /\ Dead(Raised(b), w) = {} /\ b.owner = 0 /\ Waiting(w) = 0
               THEN bcasts \ {b}
               ELSE (bcasts \ {b}) \cup {[b EXCEPT !.rest = @ \ {w},
                                                    !.dead = Dead(Raised(b), w),
                                                    !.wait = Waiting(w)]}
    /\ UNCHANGED <<regVars, WS_CLIENTS, messages, is_running, dbVars, postVars, delVars,
                   runVars, bq, wsVars>>

\* A _broadcast that has sent to every client of its copy closes and discards the
\* dead ones and returns; the one awaited by a run returns into the finally block.
BroadcastFinish(b) ==
    /\ evOwner' = 0
    /\ EvFree
    /\ b \in bcasts
    /\ b.rest = {}
    /\ Resumable(b)
    /\ bcasts' = bcasts \ {b}
    /\ WS_CLIENTS' = [WS_CLIENTS EXCEPT ![b.sid] = @ \ Raised(b)]
    /\ IF b.owner # 0
       THEN RunFinally(b.owner)
       ELSE UNCHANGED <<is_running, dbSessions, runPc, before, aliased, loopMsgs, idx, nTurns>>
    /\ UNCHANGED <<regVars, messages, dbMessages, dbSeq, writable, postVars, delVars,
                   outcome, live, published, bq, wsVars, recv>>

BroadcastsSend == \E b \in bcasts : BroadcastSend(b)

BroadcastsFinish == \E b \in bcasts : BroadcastFinish(b)

\* -------------------------------------------------------------- agent runner
\* The guard of line 332 left out.
AlreadyRunningIgnored(o) == FALSE

\* line 332: the early return of a run that finds the session running.
AlreadyRunning(o) == is_running[o]

\* _run_agent_for_session from its start to the await of sampling_loop.  The status
\* write of line 335 is outside the try block: when it raises, the task ends with
\* is_running set.  The agent loop is handed session.messages itself: it either
\* works on that list or on a list of its own.
RunStart(r) ==
    /\ evOwner' = 0
    /\ EvFree
    /\ runPc[r] = "queued"
    /\ LET o == postObj[r] IN
       IF AlreadyRunning(o)
       THEN /\ runPc' = [runPc EXCEPT ![r] = "skipped"]
            /\ UNCHANGED <<is_running, dbSessions, before, aliased, loopMsgs>>
       ELSE /\ is_running' = [is_running EXCEPT ![o] = TRUE]
            /\ IF writable
               THEN /\ dbSessions' = set_session_status(dbSessions, sessId[o], "running")
                    /\ before' = [before EXCEPT ![r] = Len(messages[o])]
                    /\ \E a \in BOOLEAN :
                          /\ aliased' = [aliased EXCEPT ![r] = a]
                          /\ loopMsgs' = [loopMsgs EXCEPT ![r] =
                                             IF a THEN <<>> ELSE messages[o]]
                    /\ runPc' = [runPc EXCEPT ![r] = "loop"]
               ELSE /\ runPc' = [runPc EXCEPT ![r] = "crashed"]
                    /\ UNCHANGED <<dbSessions, before, aliased, loopMsgs>>
    /\ UNCHANGED <<regVars, WS_CLIENTS, messages, dbMessages, dbSeq, writable, postVars,
                   delVars, idx, nTurns, outcome, live, published, bq, bcasts, wsVars, recv>>

\* An agent loop that goes on when the publishes of its callbacks have ended.
NotYieldedUntilSent(r) ==
    /\ \A i \in 1..Len(bq) : bq[i].ev.run # r
    /\ \A b \in bcasts : b.ev.run # r

\* A coroutine that has yielded resumes after the tasks it created have started
\* (the event loop runs its ready queue in order): the agent loop of run r goes on
\* while its tasks are waiting only if it has not yielded since it created them.
NotYielded(r) ==
    IF \E i \in 1..Len(bq) : bq[i].ev.run = r THEN evOwner = r ELSE TRUE

\* output_callback, tool_output_callback, api_response_callback: each makes a task
\* that broadcasts the event and returns.
Callback(q, session_id, kind, r, k) ==
    Append(q, [ev |-> Event(kind, r, k), sid |-> session_id])

\* One step of the agent loop between two of its awaits: it appends a turn to the
\* history it works on and reports through one of its three callbacks.
LoopStep(r, kind) ==
    /\ evOwner' = r
    /\ EvFree
    /\ runPc[r] = "loop"
    /\ NotYielded(r)
    /\ nTurns[r] < MaxTurns
    /\ nTurns' = [nTurns EXCEPT ![r] = @ + 1]
    /\ IF aliased[r]
       THEN /\ messages' = [messages EXCEPT ![postObj[r]] =
                                Append(@, AssistantTurn(r, nTurns[r] + 1))]
            /\ UNCHANGED loopMsgs
       ELSE /\ loopMsgs' = [loopMsgs EXCEPT ![r] =
                                Append(@, AssistantTurn(r, nTurns[r] + 1))]
            /\ UNCHANGED messages
    /\ bq' = Callback(bq, sessId[postObj[r]], kind, r, nTurns[r] + 1)
    /\ UNCHANGED <<regVars, WS_CLIENTS, is_running, dbVars, postVars, delVars, runPc,
                   before, aliased, idx, outcome, live, published, bcasts, wsVars, recv>>

\* A run that persists nothing.
FirstNewNone(updated_messages, len_before) == Len(updated_messages) + 1

\* line 386: the first index the run persists, past the end when nothing is new.
FirstNew(updated_messages, len_before) ==
    IF updated_messages # <<>> /\ Len(updated_messages) > len_before
    THEN len_before + 1
    ELSE Len(updated_messages) + 1

\* sampling_loop returns updated_messages.
LoopReturn(r) ==
    /\ evOwner' = 0
    /\ EvFree
    /\ runPc[r] = "loop"
    /\ NotYielded(r)
    /\ LET updated_messages == IF aliased[r] THEN messages[postObj[r]] ELSE loopMsgs[r] IN
         /\ loopMsgs' = [loopMsgs EXCEPT ![r] = updated_messages]
         /\ idx' = [idx EXCEPT ![r] = FirstNew(updated_messages, before[r])]
    /\ outcome' = [outcome EXCEPT ![r] = "returned"]
    /\ runPc' = [runPc EXCEPT ![r] = "persist"]
    /\ UNCHANGED <<regVars, WS_CLIENTS, messages, is_running, dbVars, postVars, delVars,
                   before, aliased, nTurns, live, published, bq, bcasts, wsVars, recv>>

\* lines 387-391: one _insert_message of the persistence loop; when it raises, the
\* except clause broadcasts "error".
RunPersist(r) ==
    /\ UNCHANGED evOwner
    /\ runPc[r] = "persist"
    /\ idx[r] <= Len(loopMsgs[r])
    /\ IF writable
       THEN /\ LET msg == loopMsgs[r][idx[r]] IN
                 dbMessages' = insert_message(dbMessages, dbSeq, sessId[postObj[r]],
                                              msg.role, msg.content)
            /\ dbSeq' = dbSeq + 1
            /\ idx' = [idx EXCEPT ![r] = @ + 1]
            /\ UNCHANGED <<is_running, dbSessions, runPc, before, aliased, loopMsgs,
                           nTurns, live, published, bcasts, recv>>
       ELSE /\ InlineBroadcast(r, Event("error", r, 0))
            /\ UNCHANGED <<dbMessages, dbSeq>>
    /\ UNCHANGED <<regVars, WS_CLIENTS, messages, writable, postVars, delVars, outcome,
                   bq, wsVars>>

\* lines 392-393: the history is replaced and "done" is broadcast.
RunDone(r) ==
    /\ evOwner' = 0
    /\ runPc[r] = "persist"
    /\ idx[r] > Len(loopMsgs[r])
    /\ messages' = [messages EXCEPT ![postObj[r]] = loopMsgs[r]]
    /\ InlineBroadcast(r, Event("done", r, 0))
    /\ UNCHANGED <<regVars, WS_CLIENTS, dbMessages, dbSeq, writable, postVars, delVars,
                   outcome, bq, wsVars>>

\* sampling_loop raises: lines 394-395 broadcast "error".
LoopRaise(r) ==
    /\ evOwner' = 0
    /\ EvFree
    /\ runPc[r] = "loop"
    /\ NotYielded(r)
    /\ outcome' = [outcome EXCEPT ![r] = "raised"]
    /\ InlineBroadcast(r, Event("error", r, 0))
    /\ UNCHANGED <<regVars, WS_CLIENTS, messages, dbMessages, dbSeq, writable, postVars,
                   delVars, bq, wsVars>>

\* The next step of the agent loop of run r: one more turn and callback, or its end.
LoopNext(r) ==
    \/ \E kind \in CallbackKinds : LoopStep(r, kind)
    \/ LoopReturn(r)
    \/ LoopRaise(r)

\* ---------------------------------------------------------------- websocket
\* websocket_endpoint from accept to its first await past the registry check.
WsConnect(w) ==
    /\ evOwner' = 0
    /\ EvFree
    /\ wsPc[w] = "new"
    /\ Next1(wsPc, w)
    /\ \E session_id \in Names :
          /\ Nameable(session_id)
          /\ wsSid' = [wsSid EXCEPT ![w] = session_id]
          /\ IF SESSIONS[session_id] = 0
             THEN /\ recv' = [recv EXCEPT ![w] = Append(@, NotFoundEvent)]
                  /\ wsPc' = [wsPc EXCEPT ![w] = "rejected"]
                  /\ UNCHANGED <<WS_CLIENTS, alive>>
             ELSE /\ WS_CLIENTS' = [WS_CLIENTS EXCEPT ![session_id] = @ \cup {w}]
                  /\ wsPc' = [wsPc EXCEPT ![w] = "fetch"]
                  /\ alive' = [alive EXCEPT ![w] = TRUE]
                  /\ UNCHANGED recv
    /\ UNCHANGED <<regVars, messages, is_running, dbVars, postVars, delVars, runVars,
                   bq, bcasts, wsHist, stalled>>

\* asyncio.to_thread(_get_messages, session_id).
WsFetch(w) ==
    /\ UNCHANGED evOwner
    /\ wsPc[w] = "fetch"
    /\ wsHist' = [wsHist EXCEPT ![w] = get_messages(wsSid[w])]
    /\ wsPc' = [wsPc EXCEPT ![w] = "send"]
    /\ UNCHANGED <<regVars, WS_CLIENTS, messages, is_running, dbVars, postVars, delVars,
                   runVars, bq, bcasts, wsSid, alive, stalled, recv>>

\* The history frame is sent; a send that raises ends the handler through finally.
WsHistory(w) ==
    /\ evOwner' = 0
    /\ EvFree
    /\ wsPc[w] = "send"
    /\ Waiting(w) = 0
    /\ recv' = IF alive[w] THEN Delivered(w, HistoryEvent(wsHist[w]))
                ELSE [recv EXCEPT ![w] = <<>>]
    /\ wsHist' = [wsHist EXCEPT ![w] = <<>>]
    /\ IF alive[w]
       THEN /\ wsPc' = [wsPc EXCEPT ![w] = "open"]
            /\ UNCHANGED WS_CLIENTS
       ELSE /\ wsPc' = [wsPc EXCEPT ![w] = "closed"]
            /\ WS_CLIENTS' = [WS_CLIENTS EXCEPT ![wsSid[w]] = @ \ {w}]
    /\ UNCHANGED <<regVars, messages, is_running, dbVars, postVars, delVars, runVars,
                   bq, bcasts, wsSid, alive, stalled>>

\* The client end goes away.  A handler waiting in receive_text gets
\* WebSocketDisconnect and its finally block discards the socket; a handler that
\* has not sent the history yet finds out when it sends.
ClientDisconnect(w) ==
    /\ evOwner' = 0
    /\ EvFree
    /\ wsPc[w] \in {"fetch", "send", "open"}
    /\ alive[w]
    /\ alive' = [alive EXCEPT ![w] = FALSE]
    /\ stalled' = stalled \ {w}
    /\ IF wsPc[w] = "open"
       THEN /\ wsPc' = [wsPc EXCEPT ![w] = "closed"]
            /\ WS_CLIENTS' = [WS_CLIENTS EXCEPT ![wsSid[w]] = @ \ {w}]
            /\ recv' = [recv EXCEPT ![w] = <<>>]
       ELSE UNCHANGED <<wsPc, WS_CLIENTS, recv>>
    /\ UNCHANGED <<regVars, messages, is_running, dbVars, postVars, delVars, runVars,
                   bq, bcasts, wsSid, wsHist>>

\* The client of w stops reading its socket: from now on a send to w is held.
ClientStall(w) ==
    /\ UNCHANGED evOwner
    /\ wsPc[w] \in {"fetch", "send", "open"}
    /\ alive[w]
    /\ w \notin stalled
    /\ stalled' = stalled \cup {w}
    /\ UNCHANGED <<regVars, WS_CLIENTS, messages, is_running, dbVars, postVars, delVars,
                   runVars, bq, bcasts, wsPc, wsSid, wsHist, alive, recv>>

\* ------------------------------------------------------------ environment
\* The database stops accepting writes (disk full, file locked by another process).
StoreFault ==
    /\ UNCHANGED evOwner
    /\ writable
    /\ writable' = FALSE
    /\ UNCHANGED <<regVars, WS_CLIENTS, messages, is_running, dbSessions, dbMessages,
                   dbSeq, postVars, delVars, runVars, bq, bcasts, wsVars, recv>>

\* The database accepts writes again.
StoreRecover ==
    /\ UNCHANGED evOwner
    /\ ~writable
    /\ writable' = TRUE
    /\ UNCHANGED <<regVars, WS_CLIENTS, messages, is_running, dbSessions, dbMessages,
                   dbSeq, postVars, delVars, runVars, bq, bcasts, wsVars, recv>>

\* ------------------------------------------------------------- specification
\* The requests and tasks of the server, for nObjs create_session requests with
\* the clock values ids, nPosts post_message requests, nDels delete_session
\* requests, nSocks websocket connections, agent loops that report through the
\* callbacks kinds, and create_session requests for the providers providers.
Server(nObjs, ids, nPosts, nDels, nSocks, kinds, providers) ==
    \/ \E o \in 1..nObjs : CreateSession(o, ids, providers)
    \/ \E o \in 1..nObjs : CreateInsert(o)
    \/ \E d \in 1..nDels : DeleteSession(d)
    \/ \E d \in 1..nDels : DeleteRows(d)
    \/ \E p \in 1..nPosts : PostMessage(p)
    \/ \E p \in 1..nPosts : PostInsert(p)
    \/ \E p \in 1..nPosts : PostResume(p)
    \/ \E r \in 1..nPosts : RunStart(r)
    \/ \E r \in 1..nPosts, kind \in kinds : LoopStep(r, kind)
    \/ \E r \in 1..nPosts : LoopReturn(r)
    \/ \E r \in 1..nPosts : RunPersist(r)
    \/ \E r \in 1..nPosts : RunDone(r)
    \/ \E r \in 1..nPosts : LoopRaise(r)
    \/ BroadcastStart
    \/ BroadcastsFinish
    \/ \E w \in 1..nSocks : WsConnect(w)
    \/ \E w \in 1..nSocks : WsFetch(w)
    \/ \E w \in 1..nSocks : WsHistory(w)
    \/ \E w \in 1..nSocks : ClientDisconnect(w)

\* One session, concurrent posts, one subscriber (a _broadcast call has one client
\* at most, and no second send).
NextPosts == Server(1, {1}, MaxPosts, MaxDeletes, 1, {"assistant_block"}, {"anthropic"})
SpecPosts == Init /\ [][NextPosts]_vars

\* One session, one post, concurrent subscribers.
NextFanout ==
    \/ Server(1, {1}, 1, MaxDeletes, MaxSubs, CallbackKinds, {"anthropic"})
    \/ BroadcastsSend
SpecFanout == Init /\ [][NextFanout]_vars

\* One session, one post, one subscriber, a database whose writes can fail.
NextFault ==
    \/ Server(1, {1}, 1, MaxDeletes, 1, {"assistant_block"}, {"anthropic"})
    \/ StoreFault
    \/ StoreRecover
SpecFault == Init /\ [][NextFault]_vars

\* Two create_session requests for any provider, whose clock readings can be equal,
\* one post, one subscriber.
NextCreate == Server(MaxSessions, Ids, 1, MaxDeletes, 1, {"assistant_block"}, Providers)
SpecCreate == Init /\ [][NextCreate]_vars

\* One session, one post, a delete_session request and its repetitions.
NextDeletes ==
    Server(1, {1}, 1, MaxDeletes + MaxRepeats, 1, {"assistant_block"}, {"anthropic"})
SpecDeletes == Init /\ [][NextDeletes]_vars

\* The steps the server takes by itself: worker threads finish their database calls,
\* ready tasks are run by the event loop, the agent loop comes to an end.  Requests,
\* connections, disconnections and stalls are made by clients.
ServerSteps ==
    \/ \E o \in Objs : CreateInsert(o)
    \/ \E d \in Deletes : DeleteRows(d)
    \/ \E p \in Posts : PostInsert(p) \/ PostResume(p)
    \/ \E r \in Posts : RunStart(r) \/ LoopReturn(r) \/ LoopRaise(r) \/ RunPersist(r) \/ RunDone(r)
    \/ BroadcastStart
    \/ BroadcastsSend
    \/ BroadcastsFinish
    \/ \E w \in Sockets : WsFetch(w) \/ WsHistory(w)

\* One session, one post, concurrent subscribers whose clients can stop reading;
\* the server keeps taking its steps.
NextSlow ==
    \/ Server(1, {1}, 1, MaxDeletes, MaxSubs, {"assistant_block"}, {"anthropic"})
    \/ BroadcastsSend
    \/ \E w \in Sockets : ClientStall(w)
SpecSlow == Init /\ [][NextSlow]_vars /\ WF_vars(NextSlow /\ ServerSteps)

\* One session, one post, no delete; an agent loop that reports through any of its
\* three callbacks to concurrent subscribers whose clients can stop reading or go
\* away.
NextCallbacks ==
    \/ \E o \in 1..1 : CreateSession(o, {1}, {"anthropic"}) \/ CreateInsert(o)
    \/ \E p \in 1..1 : PostMessage(p) \/ PostInsert(p) \/ PostResume(p)
    \/ \E r \in 1..1 : RunStart(r) \/ LoopReturn(r) \/ LoopRaise(r) \/ RunPersist(r) \/ RunDone(r)
    \/ \E r \in 1..1, kind \in CallbackKinds : LoopStep(r, kind)
    \/ BroadcastStart
    \/ BroadcastsSend
    \/ BroadcastsFinish
    \/ \E w \in Sockets : WsConnect(w) \/ WsFetch(w) \/ WsHistory(w)
    \/ \E w \in Sockets : ClientDisconnect(w) \/ ClientStall(w)
SpecCallbacks == Init /\ [][NextCallbacks]_vars

\* Two sessions created at different clock readings, posts to either of them, their
\* runs, and one subscriber of either (a _broadcast call has one client at most);
\* no delete.
NextPair ==
    \/ \E o \in Objs : CreateSession(o, {o}, {"anthropic"}) \/ CreateInsert(o)
    \/ \E p \in Posts : PostMessage(p) \/ PostInsert(p) \/ PostResume(p)
    \/ \E r \in Posts : RunStart(r) \/ LoopReturn(r) \/ LoopRaise(r) \/ RunPersist(r) \/ RunDone(r)
    \/ \E r \in Posts : LoopStep(r, "assistant_block")
    \/ BroadcastStart
    \/ BroadcastsFinish
    \/ \E w \in 1..1 : WsConnect(w) \/ WsFetch(w) \/ WsHistory(w) \/ ClientDisconnect(w)
SpecPair == Init /\ [][NextPair]_vars

\* ================================================================ properties
InRun(r) == runPc[r] \in {"loop", "persist", "bcast"}

Rows(session_id) == {m \in dbMessages : m.session_id = session_id}

Holds(history, turn) == \E i \in 1..Len(history) : history[i] = turn

Count(w, type, r) ==
    Cardinality({i \in 1..Len(recv[w]) : recv[w][i].type = type /\ recv[w][i].run = r})

IsCallbackEvent(ev) == ev.type \in CallbackKinds

IsTerminalEvent(ev) == ev.type \in {"done", "error"} /\ ev.run # 0

\* Run r publishes "done" in this step (lines 392-393).
PublishesDone(r) ==
    /\ runPc[r] = "persist"
    /\ runPc'[r] \in {"bcast", "finished"}
    /\ idx[r] > Len(loopMsgs[r])

\* The object is the registered session of its id and no delete_session has named
\* that id.
NeverDeleted(o) ==
    /\ SESSIONS[sessId[o]] = o
    /\ \A d \in Deletes : delId[d] # sessId[o]

HasRow(rows, session_id, turn) ==
    \E m \in rows :
        m.session_id = session_id /\ m.role = turn.role /\ m.content = turn.content

IsTurnOf(r, turn) == turn.role = "assistant" /\ turn.content \div 10 = r

\* C1: at most one agent-loop invocation is in progress for a session at any time,
\* also when two posts both found the session idle and both scheduled a run.
C1_OneRunPerSession ==
    \A r1, r2 \in Posts :
        (r1 # r2 /\ InRun(r1) /\ InRun(r2)) => postObj[r1] # postObj[r2]

\* Two posts found the session idle and scheduled a run each; one run is in its
\* agent loop, the other has returned at the guard.
C1_Witness ==
    \E r1, r2 \in Posts :
        /\ r1 # r2
        /\ postObj[r1] = postObj[r2]
        /\ runPc[r1] = "loop"
        /\ runPc[r2] = "skipped"

\* C2: a subscriber of an existing session receives exactly one history event, before
\* any live event of the session, and the history event holds the persisted messages
\* in identifier order.
C2_HistoryFirst ==
    \A w \in Sockets :
        wsPc[w] \in {"fetch", "send", "open"} =>
            /\ recv[w] # <<>> => recv[w][1].type = "history"
            /\ Count(w, "history", 0) <= 1
            /\ wsPc[w] = "open" /\ alive[w] => Count(w, "history", 0) = 1
            /\ \A i \in 1..Len(recv[w]) :
                  \A a, b \in 1..Len(recv[w][i].messages) :
                      a < b => recv[w][i].messages[a].id < recv[w][i].messages[b].id

\* C3: every subscriber gets the events of a run in publish order: the callback
\* events before the run's terminal event, and in the order of their callbacks.
C3_PublishOrder ==
    \A w \in Sockets :
        \A i, j \in 1..Len(recv[w]) :
            (i < j /\ recv[w][i].run = recv[w][j].run /\ IsCallbackEvent(recv[w][j])) =>
                /\ ~IsTerminalEvent(recv[w][i])
                /\ IsCallbackEvent(recv[w][i]) => recv[w][i].k < recv[w][j].k

\* C4: every turn of a session is persisted exactly once: the store never holds two
\* rows for the same turn, also when a user message is posted while a run executes.
C4_PersistedOnce ==
    \A m1, m2 \in dbMessages :
        (m1.session_id = m2.session_id /\ m1.role = m2.role /\ m1.content = m2.content)
            => m1.id = m2.id

\* C5: the store holds no orphaned message: every row of the messages table belongs
\* to a session whose row exists.
C5_NoOrphan ==
    \A m \in dbMessages : dbSessions[m.session_id] # "none"

\* C6: within a session the identifiers are strictly increasing and the order of the
\* persisted messages equals the order of the turns in the in-memory history.
C6_PersistOrder ==
    /\ \A m1, m2 \in dbMessages : m1.id = m2.id => m1 = m2
    /\ \A o \in Objs :
         \A i, j \in 1..Len(messages[o]) :
             i < j =>
                \A m1, m2 \in Rows(sessId[o]) :
                    ( /\ m1.role = messages[o][i].role /\ m1.content = messages[o][i].content
                      /\ m2.role = messages[o][j].role /\ m2.content = messages[o][j].content )
                    => m1.id < m2.id

\* C7: a post on a session whose run is in progress appends the user turn to the
\* in-memory history and persists it at once, and no run starts on a session while
\* another run of it is in progress.
C7_PostWhileRunning ==
    [][ /\ \A p \in Posts :
             (postPc[p] = "new" /\ postPc'[p] = "insert") =>
                 /\ Len(messages'[postObj'[p]]) > 0
                 /\ messages'[postObj'[p]][Len(messages'[postObj'[p]])] = UserTurn(p)
        /\ \A p \in Posts :
             (postPc[p] = "insert" /\ postPc'[p] = "resume") =>
                 \E m \in dbMessages' \ dbMessages :
                     /\ m.session_id = sessId[postObj[p]]
                     /\ m.role = "user" /\ m.content = p
        /\ \A p \in Posts :
             (postPc[p] = "resume" /\ postPc'[p] = "accepted") =>
                 (runPc'[p] = "queued" <=> ~is_running[postObj[p]])
        /\ \A r \in Posts :
             (runPc[r] = "queued" /\ runPc'[r] = "loop") =>
                 \A r2 \in Posts : (postObj[r2] = postObj[r] /\ r2 # r) => ~InRun(r2)
      ]_vars

\* A post made while a run was in its agent loop has been accepted: its turn is in
\* the store, it scheduled no run, and the first run is still in progress.
C7_Witness ==
    \E p, r \in Posts :
        /\ p # r
        /\ during[p] = r
        /\ runPc[r] = "loop"
        /\ postPc[p] = "accepted"
        /\ runPc[p] = "none"
        /\ \E m \in Rows(sessId[postObj[p]]) : m.role = "user" /\ m.content = p

\* C8: a user message posted while a run is in progress is still in the in-memory
\* history after that run completes, and is in the history the agent loop works on
\* the next time a run starts for the session.
C8_PostSurvivesRun ==
    \A p \in Posts :
        (during[p] # 0 /\ postPc[p] \in {"insert", "resume", "accepted"}) =>
            LET r == during[p]
                o == postObj[p]
            IN  (runPc[r] = "finished" /\ outcome[r] = "returned") =>
                    /\ Holds(messages[o], UserTurn(p))
                    /\ \A r2 \in Posts :
                          (r2 # r /\ postObj[r2] = o /\ runPc[r2] = "loop") =>
                              Holds(IF aliased[r2] THEN messages[o] ELSE loopMsgs[r2],
                                    UserTurn(p))

\* C9: when the agent loop of a run raises, the run-state and the persisted status
\* return to idle, the run persists no message, and every subscriber registered when
\* the error is published, and still connected, receives exactly one error event.
C9_RaiseReported ==
    \A r \in Posts :
        outcome[r] = "raised" =>
            /\ \A w \in Sockets : Count(w, "error", r) <= 1
            /\ \A m \in dbMessages : m.role = "assistant" => m.content \div 10 # r
            /\ runPc[r] = "finished" =>
                  /\ \A w \in live[r] : alive[w] => Count(w, "error", r) = 1
                  /\ (\A r2 \in Posts : postObj[r2] = postObj[r] => ~InRun(r2))
                        => /\ ~is_running[postObj[r]]
                           /\ dbSessions[sessId[postObj[r]]] \in {"idle", "none"}

\* The agent loop of a run raised after reporting through a callback, two connected
\* subscribers were registered, and the run has finished.
C9_Witness ==
    \E r \in Posts :
        /\ outcome[r] = "raised"
        /\ runPc[r] = "finished"
        /\ Cardinality({w \in live[r] : alive[w]}) = 2
        /\ dbSessions[sessId[postObj[r]]] = "idle"

\* C10: every run that has entered running returns the session to idle, in memory
\* and in the store, whatever its outcome: the agent loop returns, it raises, or a
\* store write of the run fails.
C10_ReturnsToIdle ==
    \A o \in Objs :
        (sessId[o] # 0 /\ \A r \in Posts : postObj[r] = o => ~InRun(r)) =>
            /\ ~is_running[o]
            /\ dbSessions[sessId[o]] # "running"

\* C11: a publish is not held for ever by a slow subscriber: a run that has begun to
\* publish its terminal event comes to its end, and the other subscribers of the
\* session, connected and reading, have received that event.
C11_SlowSubscriber ==
    \A r \in Posts :
        (runPc[r] = "bcast") ~>
            /\ runPc[r] = "finished"
            /\ ~is_running[postObj[r]]
            /\ \A w \in live[r] :
                  Waiting(w) = 0 /\ alive[w] =>
                      \E i \in 1..Len(recv[w]) :
                          recv[w][i].run = r /\ IsTerminalEvent(recv[w][i])

\* C12: a subscriber whose delivery failed is discarded from the session's subscriber
\* set when the publish ends and is delivered no later event; the other subscribers
\* of the publish, still connected, have received the event; and the publish does
\* not fail: a run whose agent loop returned ends with "done", never with "error".
C12_DeliveryFailure ==
    /\ [](\A r \in Posts :
             (runPc[r] = "finished" /\ outcome[r] = "returned") =>
                 /\ \A w \in live[r] : alive[w] => Count(w, "done", r) = 1
                 /\ \A w \in Sockets : Count(w, "error", r) = 0)
    /\ [][ /\ \A b \in bcasts :
                (b \notin bcasts' /\ b.rest = {}) =>
                    \A w \in b.dead : w \notin WS_CLIENTS'[b.sid]
           /\ \A w \in Sockets :
                (wsPc[w] # "new" /\ ~alive[w]) => Len(recv'[w]) <= Len(recv[w])
         ]_vars

\* A run whose agent loop returned has finished; of the two subscribers of its
\* "done" publish one has received the event, and the other, gone before its send,
\* was discarded by the publish (its handler had not yet sent the history).
C12_Witness ==
    \E r \in Posts :
        /\ runPc[r] = "finished"
        /\ outcome[r] = "returned"
        /\ \E w1, w2 \in live[r] :
              /\ alive[w1]
              /\ Count(w1, "done", r) = 1
              /\ ~alive[w2]
              /\ wsPc[w2] \in {"fetch", "send"}
              /\ w2 \notin WS_CLIENTS[wsSid[w2]]

C14_DeletedGone ==
    \A d \in Deletes, o \in Objs :
        (delPc[d] = "done" /\ sessId[o] = delId[d] /\ SESSIONS[delId[d]] # o) =>
            /\ get_session_messages(delId[d]).status = "notfound"
            /\ Rows(delId[d]) = {}

\* C15: a postMessage or a subscribe that names an id the registry does not hold
\* fails with not-found and changes no state: no turn is appended or persisted, no
\* run is scheduled, the connection joins no subscriber set and gets one error frame,
\* never a history event.
C15_NotFoundNoEffect ==
    /\ [](\A p \in Posts :
             postPc[p] = "notfound" =>
                 /\ runPc[p] = "none"
                 /\ \A o \in Objs : ~Holds(messages[o], UserTurn(p))
                 /\ \A m \in dbMessages : ~(m.role = "user" /\ m.content = p))
    /\ [](\A w \in Sockets :
             wsPc[w] = "rejected" =>
                 /\ \A i \in Names : w \notin WS_CLIENTS[i]
                 /\ Len(recv[w]) = 1
                 /\ recv[w][1].type = "error")
    /\ [][ (\/ \E p \in Posts : (postPc[p] = "new" /\ postPc'[p] = "notfound")
             \/ \E w \in Sockets : (wsPc[w] = "new" /\ wsPc'[w] = "rejected")) =>
                UNCHANGED <<SESSIONS, WS_CLIENTS, messages, is_running, dbSessions,
                            dbMessages, dbSeq, runPc, bq, bcasts>>
         ]_vars

\* A post and a subscribe have both named an id that the registry no longer holds,
\* after a session with messages was deleted.
C15_Witness ==
    \E p \in Posts, w \in Sockets, d \in Deletes :
        /\ postPc[p] = "notfound"
        /\ wsPc[w] = "rejected"
        /\ delPc[d] = "done"
        /\ \E o \in Objs : sessId[o] = delId[d] /\ messages[o] # <<>>

\* C16: createSession fails, and creates nothing, when no credential is resolvable
\* for the chosen provider: a session is only ever constructed with a credential,
\* and a rejected request has constructed none.
C16_CreateRequiresCredential ==
    \A o \in Objs :
        /\ createPc[o] = "rejected" => (sessId[o] = 0 /\ provider[o] = "none")
        /\ createPc[o] \in {"insert", "done"} =>
              /\ api_key[o] # ""
              /\ createPc[o] = "done" /\ SESSIONS[sessId[o]] = o =>
                    dbSessions[sessId[o]] \in {"idle", "running"}

\* C17: session identities are unique: no two constructed sessions have the same id.
C17_UniqueIds ==
    \A o1, o2 \in Objs :
        (o1 # o2 /\ sessId[o1] # 0 /\ sessId[o2] # 0) => sessId[o1] # sessId[o2]

\* C18: deleteSession is idempotent: after a delete of an id has completed the registry
\* has no entry and the store no session row of that id; and a delete that found no
\* entry, no other delete of that id being in progress, leaves the registry and the
\* store as they are.
C18_DeleteIdempotent ==
    /\ [](\A d \in Deletes :
             delPc[d] = "done" =>
                 (SESSIONS[delId[d]] = 0 /\ dbSessions[delId[d]] = "none"))
    /\ [][ \A d \in Deletes :
              ( /\ delPc[d] = "db" /\ delPc'[d] = "done" /\ ~delFound[d]
                /\ \A d2 \in Deletes \ {d} : delId[d2] = delId[d] => delPc[d2] = "done" )
              => UNCHANGED <<SESSIONS, dbSessions, dbMessages>>
         ]_vars

\* C19: for every session that is in the registry and has its row in the store, the
\* stored status is "running" exactly when the session's run flag is set.
C19_StatusMirror ==
    \A o \in Objs :
        (sessId[o] # 0 /\ SESSIONS[sessId[o]] = o /\ dbSessions[sessId[o]] # "none") =>
            (dbSessions[sessId[o]] = "running" <=> is_running[o])

\* A second run of a registered session is in its agent loop after a first run has
\* finished: the stored status has gone from running to idle and to running again.
C19_Witness ==
    \E r1, r2 \in Posts :
        /\ runPc[r1] = "finished"
        /\ runPc[r2] = "loop"
        /\ postObj[r1] = postObj[r2]
        /\ SESSIONS[sessId[postObj[r2]]] = postObj[r2]
        /\ is_running[postObj[r2]]
        /\ dbSessions[sessId[postObj[r2]]] = "running"

\* C20: a run whose agent loop raised leaves the in-memory history as it was at the
\* start of the run, plus the user turns posted during it: the history holds no
\* turn of that run.
C20_RaiseLeavesHistory ==
    \A r \in Posts :
        (outcome[r] = "raised" /\ runPc[r] = "finished") =>
            \A i \in 1..Len(messages[postObj[r]]) : ~IsTurnOf(r, messages[postObj[r]][i])

\* The _broadcast calls that publish a callback event of run r and are suspended
\* in a send.
CallbackPublishes(r) == {b \in bcasts : b.ev.run = r /\ IsCallbackEvent(b.ev)}

\* C21: the callbacks never make the agent loop wait for delivery: a callback only
\* adds a publish task and delivers nothing itself, and the next step of the loop
\* is enabled whenever the event loop is free and the loop has not yielded with a
\* task of its own still to start, whatever the state of the sends of its publishes
\* (pending, held by a client that does not read, or failed).
C21_CallbacksDoNotWait ==
    /\ [](\A r \in Posts :
             ( /\ runPc[r] = "loop"
               /\ EvFree
               /\ (evOwner = r \/ \A i \in 1..Len(bq) : bq[i].ev.run # r) )
             => ENABLED LoopNext(r))
    /\ [][ \A r \in Posts :
              nTurns'[r] > nTurns[r] =>
                  /\ Len(bq') = Len(bq) + 1
                  /\ bq'[Len(bq')].ev.run = r
                  /\ UNCHANGED <<bcasts, recv, WS_CLIENTS>>
         ]_vars

\* The agent loop of a run has made a callback and is still in progress; the publish
\* of that callback has failed on one subscriber and is held by another, whose
\* client does not read.
C21_Witness ==
    \E r \in Posts :
        /\ runPc[r] = "loop"
        /\ nTurns[r] = 1
        /\ bq = <<>>
        /\ \E b \in CallbackPublishes(r) :
              /\ b.wait # 0
              /\ alive[b.wait]
              /\ b.dead # {}

\* A step of run r: of its task (lines 331-398), of its agent loop, or of a
\* _broadcast call that publishes one of its events.
RunStep(r) ==
    \/ RunStart(r)
    \/ LoopNext(r)
    \/ RunPersist(r)
    \/ RunDone(r)
    \/ bq # <<>> /\ Head(bq).ev.run = r /\ BroadcastStart
    \/ \E b \in bcasts : b.ev.run = r /\ (BroadcastSend(b) \/ BroadcastFinish(b))

\* The constructed sessions other than the session of run r.
OtherSessions(r) == {o \in Objs : sessId[o] # 0 /\ o # postObj[r]}

\* C22: a run of one session, whether it succeeds or fails, leaves every other
\* session unchanged: no step of the run changes the in-memory history, the run
\* flag, the persisted status, the persisted messages or the subscriber set of
\* another session.
C22_RunLeavesOthers ==
    [][ \A r \in Posts :
          RunStep(r) =>
              \A o \in OtherSessions(r) :
                  /\ messages'[o] = messages[o]
                  /\ is_running'[o] = is_running[o]
                  /\ dbSessions'[sessId[o]] = dbSessions[sessId[o]]
                  /\ {m \in dbMessages' : m.session_id = sessId[o]} = Rows(sessId[o])
                  /\ WS_CLIENTS'[sessId[o]] = WS_CLIENTS[sessId[o]]
      ]_vars

\* A run of one session has raised and finished while a run of another session,
\* which has a persisted message and a subscriber, is in its agent loop, shown as
\* running in the store.
C22_Witness ==
    \E r1, r2 \in Posts :
        /\ runPc[r1] = "finished"
        /\ outcome[r1] = "raised"
        /\ runPc[r2] = "loop"
        /\ postObj[r1] # postObj[r2]
        /\ is_running[postObj[r2]]
        /\ dbSessions[sessId[postObj[r2]]] = "running"
        /\ Rows(sessId[postObj[r2]]) # {}
        /\ WS_CLIENTS[sessId[postObj[r2]]] # {}

\* Run r has set the run flag (line 334) and its task has come to its end, by the
\* return after the finally block or by an exception that left it.
Ended(r) == runPc[r] \in {"finished", "crashed"}

\* The turns run r has to persist: those of updated_messages past messages_before.
NewTurns(r) == {i \in 1..Len(loopMsgs[r]) : i >= FirstNew(loopMsgs[r], before[r])}

\* C23: every run that enters running and reaches its end publishes exactly one
\* terminal event, "done" or "error" and never both; "done" is published only after
\* the loop returned and all new turns were persisted, and "error" also when
\* persisting a new turn fails after the loop returned.
C23_OneTerminalEvent ==
    /\ [](\A r \in Posts :
             /\ Len(published[r]) <= 1
             /\ \A i \in 1..Len(published[r]) : published[r][i] \in {"done", "error"}
             /\ Ended(r) => Len(published[r]) = 1
             /\ published[r] = <<"done">> => outcome[r] = "returned"
             /\ outcome[r] = "raised" => published[r] = <<"error">>
             /\ \A w \in Sockets :
                   Count(w, "done", r) + Count(w, "error", r) <= Len(published[r]))
    /\ [][ \A r \in Posts :
              /\ (published[r] = <<>> /\ published'[r] = <<"done">>) =>
                    /\ runPc[r] = "persist"
                    /\ idx[r] > Len(loopMsgs[r])
                    /\ NeverDeleted(postObj[r]) =>
                          \A i \in NewTurns(r) :
                              HasRow(dbMessages', sessId[postObj[r]], loopMsgs[r][i])
              /\ (RunPersist(r) /\ ~writable) => published'[r] = <<"error">>
         ]_vars

\* The id of the session whose run r publishes the events that carry r.
PublishedFor(r) == sessId[postObj[r]]

\* The id of the session a persisted message, as a history frame shows it, was
\* written for: a user turn by its post, any other turn by its run.
WrittenFor(m) ==
    IF m.role = "user" THEN sessId[postObj[m.content]]
    ELSE PublishedFor(m.content \div 10)

\* C24: events are fanned out per session: a subscriber registered for a session
\* is delivered only events published for that session, and a history frame that
\* holds only messages of that session, never an event of a run of another session;
\* and no publish in progress has a client of another session on its list.
C24_FanOutPerSession ==
    /\ \A w \in Sockets :
          \A i \in 1..Len(recv[w]) :
              /\ recv[w][i].run # 0 => PublishedFor(recv[w][i].run) = wsSid[w]
              /\ \A j \in 1..Len(recv[w][i].messages) :
                    WrittenFor(recv[w][i].messages[j]) = wsSid[w]
    /\ \A b \in bcasts :
          /\ PublishedFor(b.ev.run) = b.sid
          /\ \A w \in b.rest \cup b.dead : wsSid[w] = b.sid

\* A connected subscriber of one session has received its history and the "done" of
\* a run of that session, and nothing else, while a run of another session has
\* published its terminal event and finished.
C24_Witness ==
    \E w \in Sockets, r1, r2 \in Posts :
        /\ wsPc[w] = "open"
        /\ alive[w]
        /\ postObj[r1] # 0
        /\ postObj[r2] # 0
        /\ PublishedFor(r1) = wsSid[w]
        /\ PublishedFor(r2) # wsSid[w]
        /\ runPc[r2] = "finished"
        /\ published[r2] # <<>>
        /\ Count(w, "done", r1) = 1
        /\ Len(recv[w]) = 2
====
